---- MODULE Spec2Model ----
(***************************************************************************)
(* EnumTypeComposer (src/src/enumTypeComposer.js) over a GraphQLEnumType   *)
(* with lazily built lookup tables.                                        *)
(*                                                                         *)
(* Value configs are JavaScript objects: they live in `heap` and the value *)
(* maps hold references (indices into heap) to them, so that two maps, or  *)
(* a map and a cached lookup table, may or may not share a config object.  *)
(* An object is a function from its own property names to strings; the     *)
(* string Undef is JavaScript's undefined, "true"/"false" its booleans.    *)
(* A value map is a sequence of entries [k |-> name, v |-> reference] in   *)
(* property (insertion) order.                                             *)
(***************************************************************************)
EXTENDS Integers, Sequences, FiniteSets, TLC

VARIABLES
    heap,    \* the config objects: heap[i] is the object with reference i
    etc,     \* the composer under test (with the GraphQLEnumType it wraps)
    cloned,  \* None, or Some(the composer the last successful clone() returned)
    log      \* the calls made so far: operation, receiver, arguments, error
             \* thrown, and the heap and composers right before the call

vars == <<heap, etc, cloned, log>>

\* Bounds of the model.
MaxOps == 2
MaxLen == 2

-----------------------------------------------------------------------------
(* JavaScript objects and property-ordered maps *)

Undef == "undefined"

None == << >>
Some(x) == <<x>>

\* An object literal, given as a record.
MkObj(r) == [p \in DOMAIN r |-> r[p]]

\* o[p], undefined when o has no own property p.
Prop(o, p) == IF p \in DOMAIN o THEN o[p] ELSE Undef

\* { ...a, ...b } on two config objects.
Spread(a, b) == [p \in (DOMAIN a) \cup (DOMAIN b) |-> IF p \in DOMAIN b THEN b[p] ELSE a[p]]

\* delete o[p]
DeleteProp(o, p) == [q \in (DOMAIN o) \ {p} |-> o[q]]

\* Boolean(v) / !!v of a string or undefined.
Truthy(v) == v # Undef /\ v # ""

BoolStr(b) == IF b THEN "true" ELSE "false"

\* values[name] is set (the maps hold objects only, so set means truthy)
MapHas(m, n) == \E i \in 1..Len(m) : m[i].k = n

\* values[name]
MapGet(m, n) == m[CHOOSE i \in 1..Len(m) : m[i].k = n].v

\* values[name] = ref : an existing key keeps its position, a new one goes last
MapPut(m, n, ref) ==
    IF MapHas(m, n)
    THEN [i \in 1..Len(m) |-> IF m[i].k = n THEN [k |-> n, v |-> ref] ELSE m[i]]
    ELSE Append(m, [k |-> n, v |-> ref])

\* delete values[name]
MapDelete(m, n) == SelectSeq(m, LAMBDA e : e.k # n)

\* { ...a, ...b } on two value maps
RECURSIVE MapSpread(_, _)
MapSpread(a, b) ==
    IF b = << >> THEN a
    ELSE MapSpread(MapPut(a, Head(b).k, Head(b).v), Tail(b))

\* Object.keys(values)
MapKeys(m) == [i \in 1..Len(m) |-> m[i].k]

\* names.indexOf(n) === -1
NotIn(names, n) == \A i \in 1..Len(names) : names[i] # n

-----------------------------------------------------------------------------
(* GraphQLEnumType (graphql-js): the type object the composer wraps *)

\* new GraphQLEnumType({ name, description, values }): the config is kept,
\* no lookup table is built yet.
NewEnumType(name, description, values) ==
    [ name        |-> name,
      description |-> description,
      _enumConfig |-> [name |-> name, description |-> description, values |-> values],
      _values      |-> None,
      _valueLookup |-> None,
      _nameLookup  |-> None ]

\* One GraphQLEnumValue, built from the config stored under the name k.
\* isDeprecated is computed from deprecationReason; value defaults to the name.
EnumValue(k, cfg) ==
    MkObj([ name              |-> k,
            description       |-> Prop(cfg, "description"),
            isDeprecated      |-> BoolStr(Truthy(Prop(cfg, "deprecationReason"))),
            deprecationReason |-> Prop(cfg, "deprecationReason"),
            astNode           |-> Prop(cfg, "astNode"),
            value             |-> IF "value" \in DOMAIN cfg THEN cfg["value"] ELSE k ])

\* defineEnumValues(type, valueMap): one fresh GraphQLEnumValue per key, in key order.
RECURSIVE defineEnumValues(_, _)
defineEnumValues(h, valueMap) ==
    IF valueMap = << >> THEN [h |-> h, ret |-> << >>]
    ELSE LET e  == Head(valueMap)
             h1 == Append(h, EnumValue(e.k, h[e.v]))
             r  == defineEnumValues(h1, Tail(valueMap))
         IN [h |-> r.h, ret |-> <<Len(h1)>> \o r.ret]

NoError == ""
NotFoundError == "NotFound"
InvalidArgumentError == "InvalidArgument"

\* A call that returns ret, or throws err, with the heap and composer of g.
Return(g, ret) == [h |-> g.h, c |-> g.c, ret |-> ret, err |-> NoError]
Throw(g, err) == [h |-> g.h, c |-> g.c, ret |-> None, err |-> err]

\* this._values = defineEnumValues(...), d being what defineEnumValues made
ValuesDefined(c, d) ==
    Return([h |-> d.h, c |-> [c EXCEPT !._values = Some(d.ret)]], d.ret)

\* getValues(): this._values || (this._values = defineEnumValues(...))
getValues(h, c) ==
    IF c._values # None THEN Return([h |-> h, c |-> c], c._values[1])
    ELSE ValuesDefined(c, defineEnumValues(h, c._enumConfig.values))

\* lookup[value[p]] = value for every value of the list, in order
RECURSIVE KeyBy(_, _, _, _)
KeyBy(h, refs, p, acc) ==
    IF refs = << >> THEN acc
    ELSE KeyBy(h, Tail(refs), p, MapPut(acc, h[Head(refs)][p], Head(refs)))

\* this[table] = lookup
LookupCached(g, table, lookup) ==
    Return([h |-> g.h, c |-> [g.c EXCEPT ![table] = Some(lookup)]], lookup)

\* the lookup by property p of the values g = getValues() returned
LookupBuilt(g, table, p) == LookupCached(g, table, KeyBy(g.h, g.ret, p, << >>))

\* _getNameLookup(): built from getValues() on first use, then cached
_getNameLookup(h, c) ==
    IF c._nameLookup # None THEN Return([h |-> h, c |-> c], c._nameLookup[1])
    ELSE LookupBuilt(getValues(h, c), "_nameLookup", "name")

\* _getValueLookup(): built from getValues() on first use, then cached
_getValueLookup(h, c) ==
    IF c._valueLookup # None THEN Return([h |-> h, c |-> c], c._valueLookup[1])
    ELSE LookupBuilt(getValues(h, c), "_valueLookup", "value")

-----------------------------------------------------------------------------
(* EnumTypeComposer: every method takes the heap and the composer and      *)
(* returns the heap and the composer after the call, the value returned    *)
(* (ret) and the error thrown (err, "" when the call returns normally).    *)
(* A method that starts by reading (const values = this.getFields()) is    *)
(* written as a second operator, ...With, applied to what the read         *)
(* returned: its heap, its composer and its value.                         *)

getFields(h, c) == _getNameLookup(h, c)

hasFieldWith(values, name) == Return(values, MapHas(values.ret, name))

hasField(h, c, name) == hasFieldWith(getFields(h, c), name)

getFieldWith(values, name) ==
    IF ~MapHas(values.ret, name) THEN Throw(values, NotFoundError)
    ELSE Return(values, MapGet(values.ret, name))

getField(h, c, name) == getFieldWith(getFields(h, c), name)

getFieldNamesWith(values) == Return(values, MapKeys(values.ret))

getFieldNames(h, c) == getFieldNamesWith(getFields(h, c))

getTypeName(c) == c.name

getDescription(c) == IF Truthy(c.description) THEN c.description ELSE ""

setTypeName(h, c, name) ==
    Return([h |-> h, c |-> [c EXCEPT !.name = name, !._enumConfig.name = name]], None)

setDescription(h, c, description) ==
    Return([h |-> h,
            c |-> [c EXCEPT !.description = description,
                            !._enumConfig.description = description]], None)

\* setFields forgetting `delete this.gqType._nameLookup`.
setFieldsKeepsLookup(h, c, values) ==
    Return([h |-> [i \in 1..Len(h) |->
                       IF \E j \in 1..Len(values) : values[j].v = i
                       THEN DeleteProp(h[i], "isDeprecated") ELSE h[i]],
            c |-> [c EXCEPT !._enumConfig.values = values,
                            !._values = None,
                            !._valueLookup = None]], None)

\* The objects of `values` lose their isDeprecated property in place, the map
\* becomes the stored config, the three built tables are dropped.
setFields(h, c, values) ==
    Return([h |-> [i \in 1..Len(h) |->
                       IF \E j \in 1..Len(values) : values[j].v = i
                       THEN DeleteProp(h[i], "isDeprecated") ELSE h[i]],
            c |-> [c EXCEPT !._enumConfig.values = values,
                            !._values = None,
                            !._valueLookup = None,
                            !._nameLookup = None]], None)

\* addFields with the spread the other way round: the existing values win.
addFieldsExistingWin(fields, newValues) ==
    setFields(fields.h, fields.c, MapSpread(newValues, fields.ret))

addFieldsWith(fields, newValues) ==
    setFields(fields.h, fields.c, MapSpread(fields.ret, newValues))

addFields(h, c, newValues) == addFieldsWith(getFields(h, c), newValues)

setField(h, c, name, valueConfig) ==
    addFields(h, c, <<[k |-> name, v |-> valueConfig]>>)

\* removeField deleting the first of the names only.
DeleteFirst(m, names) == IF names = << >> THEN m ELSE MapDelete(m, Head(names))

RECURSIVE DeleteAll(_, _)
DeleteAll(m, names) ==
    IF names = << >> THEN m ELSE DeleteAll(MapDelete(m, Head(names)), Tail(names))

\* `left` is the object getFields() returned, which is the cached name lookup
\* itself, after the deletes; setFields gets it (or a copy of it).
setFieldsLeft(values, left) ==
    setFields(values.h, [values.c EXCEPT !._nameLookup = Some(left)], left)

removeFieldWith(values, valueNames) ==
    setFieldsLeft(values, DeleteAll(values.ret, valueNames))

removeField(h, c, valueNames) == removeFieldWith(getFields(h, c), valueNames)

\* removeOtherFields with the indexOf test inverted.
removeOtherFieldsInverted(fields, keepFieldNames) ==
    setFieldsLeft(fields, SelectSeq(fields.ret, LAMBDA e : NotIn(keepFieldNames, e.k)))

removeOtherFieldsWith(fields, keepFieldNames) ==
    setFieldsLeft(fields, SelectSeq(fields.ret, LAMBDA e : ~NotIn(keepFieldNames, e.k)))

removeOtherFields(h, c, keepFieldNames) ==
    removeOtherFieldsWith(getFields(h, c), keepFieldNames)

\* names.forEach of reorderFields: [ordered |-> orderedFields, fields |-> fields]
RECURSIVE ReorderEach(_, _, _)
ReorderEach(names, orderedFields, fields) ==
    IF names = << >> THEN [ordered |-> orderedFields, fields |-> fields]
    ELSE IF MapHas(fields, Head(names))
         THEN ReorderEach(Tail(names),
                          MapPut(orderedFields, Head(names), MapGet(fields, Head(names))),
                          MapDelete(fields, Head(names)))
         ELSE ReorderEach(Tail(names), orderedFields, fields)

\* reorderFields with the spread the other way round.
reorderFieldsRestFirst(g, r) ==
    setFields(g.h, [g.c EXCEPT !._nameLookup = Some(r.fields)],
              MapSpread(r.fields, r.ordered))

\* this.setFields({ ...orderedFields, ...fields }), r being what the loop left
reorderFieldsSet(g, r) ==
    setFields(g.h, [g.c EXCEPT !._nameLookup = Some(r.fields)],
              MapSpread(r.ordered, r.fields))

reorderFieldsWith(g, names) == reorderFieldsSet(g, ReorderEach(names, << >>, g.ret))

reorderFields(h, c, names) == reorderFieldsWith(getFields(h, c), names)

\* extendField with the spread the other way round: the prior config wins.
extendFieldPriorWins(prev, name, partialValueConfig) ==
    IF prev.err # NoError THEN Throw(prev, NotFoundError)
    ELSE setField(Append(prev.h, Spread(partialValueConfig, prev.h[prev.ret])),
                  prev.c, name, Len(prev.h) + 1)

\* partialValueConfig is an object (by value): it is only read. The merged
\* config is a new object.
extendFieldWith(prev, name, partialValueConfig) ==
    IF prev.err # NoError THEN Throw(prev, NotFoundError)
    ELSE setField(Append(prev.h, Spread(prev.h[prev.ret], partialValueConfig)),
                  prev.c, name, Len(prev.h) + 1)

extendField(h, c, name, partialValueConfig) ==
    extendFieldWith(getField(h, c, name), name, partialValueConfig)

\* The forEach loops of deprecateFields over items [k |-> name, r |-> reason]:
\* a name not in existedFieldNames throws out of the loop, and so does a
\* throwing extendField (x is what extendField returned for the first item).
RECURSIVE DeprecateEach(_, _, _, _)
DeprecateRest(x, existedFieldNames, items) ==
    IF x.err # NoError THEN x
    ELSE DeprecateEach(x.h, x.c, existedFieldNames, items)

DeprecateEach(h, c, existedFieldNames, items) ==
    IF items = << >> THEN Return([h |-> h, c |-> c], None)
    ELSE IF NotIn(existedFieldNames, Head(items).k)
         THEN Throw([h |-> h, c |-> c], NotFoundError)
         ELSE DeprecateRest(extendField(h, c, Head(items).k,
                                        MkObj([deprecationReason |-> Head(items).r])),
                            existedFieldNames, Tail(items))

\* deprecateFields whose mapping form sets the fixed reason.
deprecateFieldsFixedReason(existed, fields) ==
    IF fields.form = "string"
    THEN IF NotIn(existed.ret, fields.name)
         THEN Throw(existed, NotFoundError)
         ELSE extendField(existed.h, existed.c, fields.name,
                          MkObj([deprecationReason |-> "deprecated"]))
    ELSE IF fields.form = "array"
    THEN DeprecateEach(existed.h, existed.c, existed.ret,
                       [i \in 1..Len(fields.names) |->
                           [k |-> fields.names[i], r |-> "deprecated"]])
    ELSE DeprecateEach(existed.h, existed.c, existed.ret,
                       [i \in 1..Len(fields.items) |->
                           [k |-> fields.items[i].k, r |-> "deprecated"]])

\* fields is [form |-> "string", name |-> n], [form |-> "array", names |-> seq]
\* or [form |-> "map", items |-> seq of [k |-> name, r |-> reason]].
deprecateFieldsWith(existed, fields) ==
    IF fields.form = "string"
    THEN IF NotIn(existed.ret, fields.name)
         THEN Throw(existed, NotFoundError)
         ELSE extendField(existed.h, existed.c, fields.name,
                          MkObj([deprecationReason |-> "deprecated"]))
    ELSE IF fields.form = "array"
    THEN DeprecateEach(existed.h, existed.c, existed.ret,
                       [i \in 1..Len(fields.names) |->
                           [k |-> fields.names[i], r |-> "deprecated"]])
    ELSE DeprecateEach(existed.h, existed.c, existed.ret, fields.items)

deprecateFields(h, c, fields) == deprecateFieldsWith(getFieldNames(h, c), fields)

\* Object.keys(values).forEach of clone: each config is copied into a new
\* object, and the copy loses its isDeprecated property.
RECURSIVE CloneEach(_, _, _)
CloneEach(h, values, newValues) ==
    IF values = << >> THEN [h |-> h, ret |-> newValues]
    ELSE CloneEach(Append(h, DeleteProp(h[Head(values).v], "isDeprecated")),
                   Tail(values), MapPut(newValues, Head(values).k, Len(h) + 1))

\* new EnumTypeComposer(new GraphQLEnumType({ name, values: newValues })) and
\* cloned.setDescription(this.getDescription()); n is what the loop made.
cloneNew(c, n, newTypeName) ==
    Return([h |-> n.h, c |-> c],
           Some(setDescription(n.h, NewEnumType(newTypeName, Undef, n.ret),
                               getDescription(c)).c))

cloneWith(values, newTypeName) ==
    cloneNew(values.c, CloneEach(values.h, values.ret, << >>), newTypeName)

\* ret is Some(the new composer).
clone(h, c, newTypeName) ==
    IF ~Truthy(newTypeName) THEN Throw([h |-> h, c |-> c], InvalidArgumentError)
    ELSE cloneWith(getFields(h, c), newTypeName)

-----------------------------------------------------------------------------
(* What a caller reads *)

\* A value map with its objects' contents: entries [k |-> name, o |-> object].
Deref(h, m) == [i \in 1..Len(m) |-> [k |-> m[i].k, o |-> h[m[i].v]]]

\* What getFields() returns now (the call itself may build the tables).
FieldsOf(g) == Deref(g.h, g.ret)
Fields(h, c) == FieldsOf(getFields(h, c))

\* The stored config map, this.gqType._enumConfig.values.
Stored(h, c) == Deref(h, c._enumConfig.values)

\* All a caller can read of a composer: name, description, getFields().
Obs(h, c) ==
    [name |-> getTypeName(c), description |-> getDescription(c), fields |-> Fields(h, c)]


-----------------------------------------------------------------------------
(* References: unreachable objects are dropped and the reachable ones are  *)
(* renumbered in the order the composers reach them, so that a state does  *)
(* not depend on the order in which its objects were created.              *)

MapRefs(m) == [i \in 1..Len(m) |-> m[i].v]

RefsOf(c) ==
    MapRefs(c._enumConfig.values)
    \o (IF c._values = None THEN << >> ELSE c._values[1])
    \o (IF c._nameLookup = None THEN << >> ELSE MapRefs(c._nameLookup[1]))
    \o (IF c._valueLookup = None THEN << >> ELSE MapRefs(c._valueLookup[1]))

RECURSIVE Dedup(_, _)
Dedup(s, acc) ==
    IF s = << >> THEN acc
    ELSE Dedup(Tail(s), IF \E i \in 1..Len(acc) : acc[i] = Head(s)
                        THEN acc ELSE Append(acc, Head(s)))

\* f maps each reference to the number it gets
RenameMap(m, f) == [i \in 1..Len(m) |-> [k |-> m[i].k, v |-> f[m[i].v]]]

Rename(c, f) ==
    [c EXCEPT
        !._enumConfig.values = RenameMap(@, f),
        !._values      = IF @ = None THEN None ELSE Some([i \in 1..Len(@[1]) |-> f[@[1][i]]]),
        !._nameLookup  = IF @ = None THEN None ELSE Some(RenameMap(@[1], f)),
        !._valueLookup = IF @ = None THEN None ELSE Some(RenameMap(@[1], f))]

Canon(h, e, cl) ==
    LET order == Dedup(RefsOf(e) \o (IF cl = None THEN << >> ELSE RefsOf(cl[1])), << >>)
        pos == [r \in {order[i] : i \in 1..Len(order)} |->
                   CHOOSE i \in 1..Len(order) : order[i] = r]
    IN [h      |-> [i \in 1..Len(order) |-> h[order[i]]],
        etc    |-> Rename(e, pos),
        cloned |-> IF cl = None THEN None ELSE Some(Rename(cl[1], pos))]

-----------------------------------------------------------------------------
(* Arguments of the calls: literals the caller writes, by value; addFields *)
(* is also called with the map another composer's getFields() returned.    *)

Names == {"A", "B", "C"}

\* Value configs a caller passes: with and without an internal value, a
\* deprecation reason, and a left-over isDeprecated marker (as in a config
\* taken over from a read view).
InputConfigs ==
    { MkObj([x \in {} |-> ""]),
      MkObj([value |-> "v1", deprecationReason |-> "r1", isDeprecated |-> "true"]),
      MkObj([description |-> "d1", isDeprecated |-> "true"]) }

\* Partial configs for extendField.
PartialConfigs ==
    { MkObj([deprecationReason |-> "r2"]),
      MkObj([value |-> "v2", isDeprecated |-> "true"]),
      MkObj([deprecationReason |-> Undef, description |-> "d2"]) }

Reasons == {"r2", ""}

SeqsUpTo(S, n) == UNION {[1..l -> S] : l \in 0..n}

Distinct(s) == \A i, j \in 1..Len(s) : i # j => s[i] # s[j]

\* Arrays of names; a name may repeat.
NameLists == SeqsUpTo(Names, MaxLen)

\* Object literals name -> config: the keys are distinct.
InputMaps ==
    {m \in SeqsUpTo([k : Names, o : InputConfigs], MaxLen) : Distinct(MapKeys(m))}

\* Object literals name -> reason.
ReasonMaps ==
    {m \in SeqsUpTo([k : Names, r : Reasons], MaxLen) : Distinct(MapKeys(m))}

\* The caller's literal becomes objects of the heap.
RECURSIVE AllocMap(_, _, _)
AllocMap(h, vm, acc) ==
    IF vm = << >> THEN [h |-> h, ret |-> acc]
    ELSE AllocMap(Append(h, Head(vm).o), Tail(vm),
                  Append(acc, [k |-> Head(vm).k, v |-> Len(h) + 1]))

-----------------------------------------------------------------------------
(* Construction *)

Plain == MkObj([x \in {} |-> ""])

\* create(opts) with a GraphQLEnumTypeConfig, with a bare type name (no values)
\* and with an SDL string (values without config).
CreateOpts ==
    { [name |-> "Color", description |-> Undef, values |-> << >>],
      [name |-> "Color", description |-> Undef,
       values |-> << [k |-> "A", o |-> Plain], [k |-> "B", o |-> Plain], [k |-> "C", o |-> Plain] >>],
      [name |-> "Color", description |-> "about",
       values |-> << [k |-> "B", o |-> MkObj([value |-> "v1", deprecationReason |-> "r1"])],
                     [k |-> "A", o |-> MkObj([description |-> "d1"])] >>],
      [name |-> "Color", description |-> "about",
       values |-> << [k |-> "C", o |-> MkObj([deprecationReason |-> ""])],
                     [k |-> "A", o |-> MkObj([deprecationReason |-> "r1"])],
                     [k |-> "B", o |-> MkObj([value |-> "v2"])] >>] }

create(opts) ==
    LET a == AllocMap(<< >>, opts.values, << >>)
    IN [h |-> a.h, c |-> NewEnumType(opts.name, opts.description, a.ret)]

\* A call record, before its fields are filled in.
NoCall ==
    [op |-> "", on |-> "etc", err |-> NoError, form |-> "",
     names |-> << >>, map |-> << >>, cfg |-> Plain, str |-> "",
     before |-> [h |-> << >>, etc |-> None, cloned |-> None]]

Init ==
    \E opts \in CreateOpts :
        LET n == create(opts)
        IN /\ heap = n.h
           /\ etc = n.c
           /\ cloned = None
           /\ log = << >>

-----------------------------------------------------------------------------
(* The calls *)

Receivers == IF cloned = None THEN {"etc"} ELSE {"etc", "cloned"}

Receiver(on) == IF on = "etc" THEN etc ELSE cloned[1]

\* Calls are made as long as the log has room.
Open == Len(log) < MaxOps

\* The call recorded as l ended with the heap and the composers of cn.
Committed(cn, l) ==
    /\ heap' = cn.h
    /\ etc' = cn.etc
    /\ cloned' = cn.cloned
    /\ log' = Append(log, [l EXCEPT !.before = [h |-> heap, etc |-> Some(etc), cloned |-> cloned]])

\* The call on receiver `on` ended in r (heap, composer, error); l records it.
Commit(on, r, l) ==
    Committed(Canon(r.h, IF on = "etc" THEN r.c ELSE etc,
                         IF on = "etc" THEN cloned ELSE Some(r.c)),
              [l EXCEPT !.on = on, !.err = r.err])

\* The caller's literal m, allocated as a, is passed to setFields / addFields.
SetFieldsCall(on, a, m) ==
    Commit(on, setFields(a.h, Receiver(on), a.ret), [NoCall EXCEPT !.op = "setFields", !.map = m])

AddFieldsCall(on, a, m) ==
    Commit(on, addFields(a.h, Receiver(on), a.ret), [NoCall EXCEPT !.op = "addFields", !.map = m])

\* The composer that is not the receiver.
Other(on) == IF on = "etc" THEN cloned[1] ELSE etc

\* on.addFields(other.getFields()): g is the read of the other composer,
\* whose name lookup, with the objects it holds, is the argument.
AddFieldsOfCall(on, g, r) ==
    Committed(Canon(r.h, IF on = "etc" THEN r.c ELSE g.c,
                         Some(IF on = "etc" THEN g.c ELSE r.c)),
              [NoCall EXCEPT !.op = "addFields", !.form = "view", !.on = on,
                             !.err = r.err, !.map = FieldsOf(g)])

AddFieldsOfRead(on, g) == AddFieldsOfCall(on, g, addFields(g.h, Receiver(on), g.ret))

\* etc.clone(n) ended in r; a composer returned replaces `cloned`.
CloneCall(r, n) ==
    Committed(Canon(r.h, r.c, IF r.err = NoError THEN r.ret ELSE cloned),
              [NoCall EXCEPT !.op = "clone", !.str = n, !.err = r.err])

GetFields ==
    /\ Open
    /\ \E on \in Receivers :
           Commit(on, getFields(heap, Receiver(on)), [NoCall EXCEPT !.op = "getFields"])

GetFieldNames ==
    /\ Open
    /\ \E on \in Receivers :
           Commit(on, getFieldNames(heap, Receiver(on)), [NoCall EXCEPT !.op = "getFieldNames"])

HasField ==
    /\ Open
    /\ \E on \in Receivers, n \in Names :
           Commit(on, hasField(heap, Receiver(on), n),
                  [NoCall EXCEPT !.op = "hasField", !.str = n])

GetField ==
    /\ Open
    /\ \E on \in Receivers, n \in Names :
           Commit(on, getField(heap, Receiver(on), n),
                  [NoCall EXCEPT !.op = "getField", !.str = n])

\* getType() handed to the execution engine, which serializes a value:
\* the value lookup (and the value list) of the type gets built.
GetType ==
    /\ Open
    /\ \E on \in Receivers :
           Commit(on, _getValueLookup(heap, Receiver(on)), [NoCall EXCEPT !.op = "getType"])

SetTypeName ==
    /\ Open
    /\ \E on \in Receivers, n \in {"Shade"} :
           Commit(on, setTypeName(heap, Receiver(on), n),
                  [NoCall EXCEPT !.op = "setTypeName", !.str = n])

SetDescription ==
    /\ Open
    /\ \E on \in Receivers, d \in {"other"} :
           Commit(on, setDescription(heap, Receiver(on), d),
                  [NoCall EXCEPT !.op = "setDescription", !.str = d])

SetFields ==
    /\ Open
    /\ \E on \in Receivers, m \in InputMaps :
           SetFieldsCall(on, AllocMap(heap, m, << >>), m)

AddFields ==
    /\ Open
    /\ \E on \in Receivers, m \in InputMaps :
           AddFieldsCall(on, AllocMap(heap, m, << >>), m)

\* a.addFields(b.getFields()) between the composer and its clone
AddFieldsOf ==
    /\ Open
    /\ cloned # None
    /\ \E on \in Receivers : AddFieldsOfRead(on, getFields(heap, Other(on)))

SetField ==
    /\ Open
    /\ \E on \in Receivers, n \in Names, cfg \in InputConfigs :
           Commit(on, setField(Append(heap, cfg), Receiver(on), n, Len(heap) + 1),
                     [NoCall EXCEPT !.op = "setField", !.str = n, !.cfg = cfg])

\* nameOrArray: a name is the array of that name
RemoveField ==
    /\ Open
    /\ \E on \in Receivers :
           \/ \E n \in Names :
                 Commit(on, removeField(heap, Receiver(on), <<n>>),
                        [NoCall EXCEPT !.op = "removeField", !.form = "string", !.names = <<n>>])
           \/ \E ns \in NameLists :
                 Commit(on, removeField(heap, Receiver(on), ns),
                        [NoCall EXCEPT !.op = "removeField", !.form = "array", !.names = ns])

RemoveOtherFields ==
    /\ Open
    /\ \E on \in Receivers :
           \/ \E n \in Names :
                 Commit(on, removeOtherFields(heap, Receiver(on), <<n>>),
                        [NoCall EXCEPT !.op = "removeOtherFields", !.form = "string", !.names = <<n>>])
           \/ \E ns \in NameLists :
                 Commit(on, removeOtherFields(heap, Receiver(on), ns),
                        [NoCall EXCEPT !.op = "removeOtherFields", !.form = "array", !.names = ns])

ReorderFields ==
    /\ Open
    /\ \E on \in Receivers, ns \in NameLists :
           Commit(on, reorderFields(heap, Receiver(on), ns),
                  [NoCall EXCEPT !.op = "reorderFields", !.names = ns])

ExtendField ==
    /\ Open
    /\ \E on \in Receivers, n \in Names, p \in PartialConfigs :
           Commit(on, extendField(heap, Receiver(on), n, p),
                  [NoCall EXCEPT !.op = "extendField", !.str = n, !.cfg = p])

DeprecateFields ==
    /\ Open
    /\ \E on \in Receivers :
           \/ \E n \in Names :
                 Commit(on, deprecateFields(heap, Receiver(on), [form |-> "string", name |-> n]),
                        [NoCall EXCEPT !.op = "deprecateFields", !.form = "string", !.names = <<n>>])
           \/ \E ns \in NameLists :
                 Commit(on, deprecateFields(heap, Receiver(on), [form |-> "array", names |-> ns]),
                        [NoCall EXCEPT !.op = "deprecateFields", !.form = "array", !.names = ns])
           \/ \E rm \in ReasonMaps :
                 Commit(on, deprecateFields(heap, Receiver(on), [form |-> "map", items |-> rm]),
                        [NoCall EXCEPT !.op = "deprecateFields", !.form = "map",
                                       !.names = MapKeys(rm),
                                       !.map = [i \in 1..Len(rm) |->
                                                  [k |-> rm[i].k,
                                                   o |-> MkObj([deprecationReason |-> rm[i].r])]]])

\* etc.clone(newTypeName); the composer returned is kept as `cloned`.
Clone ==
    /\ Open
    /\ \E n \in {"Tint", ""} : CloneCall(clone(heap, etc, n), n)

Next ==
    \/ GetFields
    \/ GetFieldNames
    \/ HasField
    \/ GetField
    \/ GetType
    \/ SetTypeName
    \/ SetDescription
    \/ SetFields
    \/ AddFields
    \/ AddFieldsOf
    \/ SetField
    \/ RemoveField
    \/ RemoveOtherFields
    \/ ReorderFields
    \/ ExtendField
    \/ DeprecateFields
    \/ Clone

Spec == Init /\ [][Next]_vars

-----------------------------------------------------------------------------
(* Reading the log *)

Called == log # << >>

Last == log[Len(log)]

Did(op) == Called /\ Last.op = op

\* The receiver of call e: as it was right before the call, and as it is now.
ReceiverBefore(e) == IF e.on = "etc" THEN e.before.etc[1] ELSE e.before.cloned[1]

FieldsBefore(e) == Fields(e.before.h, ReceiverBefore(e))

FieldsNow(e) == Fields(heap, Receiver(e.on))

Composers == {etc} \cup (IF cloned = None THEN {} ELSE {cloned[1]})

ConfigKeys == {"value", "description", "deprecationReason", "astNode"}

\* The value o of the read view shows the config cfg given under the name k.
ReadsAs(o, k, cfg) ==
    /\ DOMAIN o = ConfigKeys \cup {"name", "isDeprecated"}
    /\ o["name"] = k
    /\ o["description"] = Prop(cfg, "description")
    /\ o["deprecationReason"] = Prop(cfg, "deprecationReason")
    /\ o["astNode"] = Prop(cfg, "astNode")
    /\ o["value"] = (IF "value" \in DOMAIN cfg THEN cfg["value"] ELSE k)
    /\ (o["isDeprecated"] = "true") <=> Truthy(Prop(cfg, "deprecationReason"))

HasMarker(m) == \E i \in 1..Len(m) : "isDeprecated" \in DOMAIN m[i].o

-----------------------------------------------------------------------------
(* C1: deprecateFields given an array or a name -> reason mapping with a   *)
(* name the composer does not have fails with the not-found error and      *)
(* leaves the value map as it was before the call.                         *)
C1_DeprecateFailFast ==
    (/\ Did("deprecateFields")
     /\ Last.form \in {"array", "map"}
     /\ \E i \in 1..Len(Last.names) : ~MapHas(FieldsBefore(Last), Last.names[i]))
    => /\ Last.err = NotFoundError
       /\ FieldsNow(Last) = FieldsBefore(Last)

-----------------------------------------------------------------------------
(* C3: after setFields(m) the stored map is m without the isDeprecated     *)
(* markers, and getFields() has exactly the keys of m, in m's order, each  *)
(* showing m's config; nothing of the map or of the tables built before    *)
(* the call is left.                                                       *)
C3_SetFieldsReplaces ==
    Did("setFields") =>
        /\ Last.err = NoError
        /\ Stored(heap, Receiver(Last.on))
             = [i \in 1..Len(Last.map) |->
                   [k |-> Last.map[i].k, o |-> DeleteProp(Last.map[i].o, "isDeprecated")]]
        /\ MapKeys(FieldsNow(Last)) = MapKeys(Last.map)
        /\ \A i \in 1..Len(Last.map) :
              ReadsAs(FieldsNow(Last)[i].o, Last.map[i].k, Last.map[i].o)

\* setFields on a composer whose name lookup was built by an earlier read,
\* dropping a value it had, with a marker in the new map.
C3_Witness ==
    /\ Did("setFields")
    /\ ReceiverBefore(Last)._nameLookup # None
    /\ \E i \in 1..Len(FieldsBefore(Last)) : ~MapHas(Last.map, FieldsBefore(Last)[i].k)
    /\ Last.map # << >>
    /\ HasMarker(Last.map)

-----------------------------------------------------------------------------
(* C10: in every state, every value of the read view of a composer has     *)
(* isDeprecated true exactly when its deprecationReason is set and not     *)
(* empty, and no stored value config has an isDeprecated property.         *)
C10_DeprecationDerived ==
    \A c \in Composers :
        /\ \A i \in 1..Len(Fields(heap, c)) :
              (Prop(Fields(heap, c)[i].o, "isDeprecated") = "true")
                  <=> Truthy(Prop(Fields(heap, c)[i].o, "deprecationReason"))
        /\ ~HasMarker(Stored(heap, c))

-----------------------------------------------------------------------------
RefSet(c) == {RefsOf(c)[i] : i \in 1..Len(RefsOf(c))}

(* C2: clone(newName) with a non-empty name returns a composer of that     *)
(* name that reads the same values, in the same order, as the original     *)
(* did; clone leaves the original as it read before; no config object is   *)
(* reachable from both composers; and a call on one of the two leaves      *)
(* what the other reads (getFields(), type name, description) unchanged.   *)
C2_CloneIndependent ==
    /\ cloned # None => RefSet(etc) \cap RefSet(cloned[1]) = {}
    /\ (Did("clone") /\ Truthy(Last.str)) =>
          /\ Last.err = NoError
          /\ cloned # None
          /\ getTypeName(cloned[1]) = Last.str
          /\ Fields(heap, cloned[1]) = FieldsBefore(Last)
          /\ Obs(heap, etc) = Obs(Last.before.h, Last.before.etc[1])
    /\ (Called /\ Last.op # "clone" /\ Last.before.cloned # None) =>
          IF Last.on = "cloned"
          THEN Obs(heap, etc) = Obs(Last.before.h, Last.before.etc[1])
          ELSE Obs(heap, cloned[1]) = Obs(Last.before.h, Last.before.cloned[1])

-----------------------------------------------------------------------------
(* Read views: sequences of [k |-> name, o |-> value] *)

\* the value read under the name k
ValueOf(f, k) == f[CHOOSE i \in 1..Len(f) : f[i].k = k].o

\* the values of f under the names of g are the ones g has
SameValues(f, g) == \A i \in 1..Len(f) : MapHas(g, f[i].k) /\ ValueOf(g, f[i].k) = f[i].o

\* { ...a, ...b } on two literals of the caller
RECURSIVE LiteralSpread(_, _)
LiteralSpread(a, b) ==
    IF b = << >> THEN a
    ELSE LiteralSpread(IF MapHas(a, Head(b).k)
                       THEN [i \in 1..Len(a) |-> IF a[i].k = Head(b).k THEN Head(b) ELSE a[i]]
                       ELSE Append(a, Head(b)),
                       Tail(b))

\* what a composer reads after the call that ended in r
FieldsAfter(r) == Fields(r.h, r.c)

\* addFields(m) on the receiver of call e as it was before that call
AddedAt(e, a) == FieldsAfter(addFields(a.h, ReceiverBefore(e), a.ret))

-----------------------------------------------------------------------------
(* C4: addFields(a) keeps the existing names in place, appends the new     *)
(* names of a in a's order, shows a's config for every name of a and the   *)
(* prior value for every other name; and addFields(a) followed by          *)
(* addFields(b) reads the same as one addFields({...a, ...b}).             *)
C4_AddFieldsMerge ==
    /\ Did("addFields") =>
          /\ Last.err = NoError
          /\ MapKeys(FieldsNow(Last))
               = MapKeys(FieldsBefore(Last))
                 \o SelectSeq(MapKeys(Last.map), LAMBDA n : ~MapHas(FieldsBefore(Last), n))
          /\ \A i \in 1..Len(FieldsNow(Last)) :
                IF MapHas(Last.map, FieldsNow(Last)[i].k)
                THEN ReadsAs(FieldsNow(Last)[i].o, FieldsNow(Last)[i].k,
                             ValueOf(Last.map, FieldsNow(Last)[i].k))
                ELSE FieldsNow(Last)[i].o = ValueOf(FieldsBefore(Last), FieldsNow(Last)[i].k)
    /\ (/\ Len(log) >= 2
        /\ Last.op = "addFields"
        /\ log[Len(log) - 1].op = "addFields"
        /\ log[Len(log) - 1].on = Last.on) =>
          FieldsNow(Last)
            = AddedAt(log[Len(log) - 1],
                      AllocMap(log[Len(log) - 1].before.h,
                               LiteralSpread(log[Len(log) - 1].map, Last.map), << >>))

\* Two addFields in a row: a and b share a name with different configs, a
\* has a name b has not, and a replaces a value the composer had.
C4_Witness ==
    /\ Len(log) = 2
    /\ log[1].op = "addFields"
    /\ log[2].op = "addFields"
    /\ \E i \in 1..Len(log[1].map) :
          /\ MapHas(log[2].map, log[1].map[i].k)
          /\ ValueOf(log[2].map, log[1].map[i].k) # log[1].map[i].o
    /\ \E i \in 1..Len(log[1].map) :
          /\ ~MapHas(log[2].map, log[1].map[i].k)
          /\ MapHas(FieldsBefore(log[1]), log[1].map[i].k)
    /\ \E i \in 1..Len(log[2].map) : ~MapHas(FieldsBefore(log[2]), log[2].map[i].k)

-----------------------------------------------------------------------------
(* C5: after reorderFields(names) getFieldNames() is the names of `names`  *)
(* the composer has, in the given order and each once, followed by the     *)
(* other names in their prior order; every value reads as before.          *)
C5_ReorderFields ==
    Did("reorderFields") =>
        /\ Last.err = NoError
        /\ MapKeys(FieldsNow(Last))
             = SelectSeq(Dedup(Last.names, << >>), LAMBDA n : MapHas(FieldsBefore(Last), n))
               \o SelectSeq(MapKeys(FieldsBefore(Last)), LAMBDA n : NotIn(Last.names, n))
        /\ SameValues(FieldsNow(Last), FieldsBefore(Last))
        /\ SameValues(FieldsBefore(Last), FieldsNow(Last))

\* A name given twice moves to the front of two other names.
C5_Witness ==
    /\ Did("reorderFields")
    /\ Len(Last.names) = 2
    /\ Last.names[1] = Last.names[2]
    /\ Len(FieldsBefore(Last)) = 3
    /\ FieldsBefore(Last)[3].k = Last.names[1]
    /\ \E i \in 1..3 : FieldsBefore(Last)[i].o["isDeprecated"] = "true"

-----------------------------------------------------------------------------
(* C6: removeField never throws; afterwards hasField is false for every    *)
(* name given, the other values keep their order and read as before, and   *)
(* with no given name present getFields() reads as before.                 *)
C6_RemoveField ==
    Did("removeField") =>
        /\ Last.err = NoError
        /\ \A i \in 1..Len(Last.names) : ~hasField(heap, Receiver(Last.on), Last.names[i]).ret
        /\ MapKeys(FieldsNow(Last))
             = SelectSeq(MapKeys(FieldsBefore(Last)), LAMBDA n : NotIn(Last.names, n))
        /\ SameValues(FieldsNow(Last), FieldsBefore(Last))
        /\ (\A i \in 1..Len(Last.names) : ~MapHas(FieldsBefore(Last), Last.names[i]))
              => FieldsNow(Last) = FieldsBefore(Last)

\* An array of two names, both present, with a value left.
C6_Witness ==
    /\ Did("removeField")
    /\ Last.form = "array"
    /\ Len(Last.names) = 2
    /\ Last.names[1] # Last.names[2]
    /\ \A i \in 1..2 : MapHas(FieldsBefore(Last), Last.names[i])
    /\ Len(FieldsNow(Last)) = 1

-----------------------------------------------------------------------------
(* C7: after removeOtherFields(keepNames) the composer has exactly its     *)
(* prior names that occur in keepNames, in their prior order and reading   *)
(* as before; that is what removeField of the prior names not in keepNames *)
(* leaves.                                                                 *)
C7_RemoveOtherFields ==
    Did("removeOtherFields") =>
        /\ Last.err = NoError
        /\ MapKeys(FieldsNow(Last))
             = SelectSeq(MapKeys(FieldsBefore(Last)), LAMBDA n : ~NotIn(Last.names, n))
        /\ SameValues(FieldsNow(Last), FieldsBefore(Last))
        /\ FieldsNow(Last)
             = FieldsAfter(removeField(Last.before.h, ReceiverBefore(Last),
                                       SelectSeq(MapKeys(FieldsBefore(Last)),
                                                 LAMBDA n : NotIn(Last.names, n))))

\* keepNames with a name the composer has and one it has not; a value goes.
C7_Witness ==
    /\ Did("removeOtherFields")
    /\ Len(Last.names) = 2
    /\ MapHas(FieldsBefore(Last), Last.names[1])
    /\ ~MapHas(FieldsBefore(Last), Last.names[2])
    /\ Len(FieldsBefore(Last)) = 2
    /\ Len(FieldsNow(Last)) = 1

-----------------------------------------------------------------------------
(* C8: extendField of a name the composer has not throws the not-found     *)
(* error and getFields() reads as before; of a name it has, the value      *)
(* reads the partial config's properties over the prior ones, in the same  *)
(* position, and every other value reads as before.                        *)
C8_ExtendField ==
    Did("extendField") =>
        IF ~MapHas(FieldsBefore(Last), Last.str)
        THEN /\ Last.err = NotFoundError
             /\ FieldsNow(Last) = FieldsBefore(Last)
        ELSE /\ Last.err = NoError
             /\ MapKeys(FieldsNow(Last)) = MapKeys(FieldsBefore(Last))
             /\ \A i \in 1..Len(FieldsNow(Last)) :
                   IF FieldsNow(Last)[i].k = Last.str
                   THEN \A p \in ConfigKeys :
                           FieldsNow(Last)[i].o[p]
                             = (IF p \in DOMAIN Last.cfg THEN Last.cfg[p]
                                ELSE FieldsBefore(Last)[i].o[p])
                   ELSE FieldsNow(Last)[i].o = FieldsBefore(Last)[i].o

\* A new reason over an old one, the internal value kept, not the last value.
C8_Witness ==
    /\ Did("extendField")
    /\ Last.err = NoError
    /\ "deprecationReason" \in DOMAIN Last.cfg
    /\ "value" \notin DOMAIN Last.cfg
    /\ FieldsBefore(Last)[Len(FieldsBefore(Last))].k # Last.str
    /\ Truthy(ValueOf(FieldsBefore(Last), Last.str)["deprecationReason"])
    /\ ValueOf(FieldsBefore(Last), Last.str)["deprecationReason"] # Last.cfg["deprecationReason"]
    /\ ValueOf(FieldsNow(Last), Last.str)["value"] # Last.str

-----------------------------------------------------------------------------
ReasonGiven(e, n) ==
    IF e.form = "map" THEN ValueOf(e.map, n)["deprecationReason"] ELSE "deprecated"

(* C9: deprecateFields with only names the composer has returns normally;  *)
(* the names and their order stay; each named value reads as before but    *)
(* for its deprecation, whose reason is 'deprecated' (name and array       *)
(* forms) or the reason given for the name (mapping form); every other     *)
(* value reads as before.                                                  *)
C9_DeprecateFields ==
    (/\ Did("deprecateFields")
     /\ \A i \in 1..Len(Last.names) : MapHas(FieldsBefore(Last), Last.names[i]))
    => /\ Last.err = NoError
       /\ MapKeys(FieldsNow(Last)) = MapKeys(FieldsBefore(Last))
       /\ \A i \in 1..Len(FieldsNow(Last)) :
             FieldsNow(Last)[i].o
               = IF NotIn(Last.names, FieldsNow(Last)[i].k)
                 THEN FieldsBefore(Last)[i].o
                 ELSE [FieldsBefore(Last)[i].o EXCEPT
                          !["deprecationReason"] = ReasonGiven(Last, FieldsNow(Last)[i].k),
                          !["isDeprecated"] =
                              BoolStr(Truthy(ReasonGiven(Last, FieldsNow(Last)[i].k)))]

\* The mapping form with two reasons, and a third value without a reason.
C9_Witness ==
    /\ Did("deprecateFields")
    /\ Last.form = "map"
    /\ Last.err = NoError
    /\ Len(Last.names) = 2
    /\ ReasonGiven(Last, Last.names[1]) # ReasonGiven(Last, Last.names[2])
    /\ \E i \in 1..Len(FieldsNow(Last)) :
          /\ NotIn(Last.names, FieldsNow(Last)[i].k)
          /\ ~Truthy(FieldsNow(Last)[i].o["deprecationReason"])

====
